---- MODULE Spec2Model ----
(***************************************************************************)
(* The capture-to-translation pipeline of OpenAzerothLink (src/src/main.py) *)
(* as a state machine: the foreground (UI) thread that handles triggers,    *)
(* settings and queued signal deliveries, and the background                *)
(* TranslationWorker threads it starts.                                     *)
(*                                                                          *)
(* Strings the code inspects character by character (api_key, OCR text)     *)
(* are sequences of one-character strings, so that str.strip() is a real    *)
(* computation.                                                             *)
(***************************************************************************)
EXTENDS Integers, Sequences, FiniteSets, TLC

VARIABLES
    config,      \* ConfigManager.config, the dict every thread shares
    cfgFile,     \* content of config.json
    tm,          \* TokenManager: session counters and self.data
    costFile,    \* content of cost.json
    today,       \* the process-local calendar date
    worker,      \* MainApplication.worker: 0 is None, k is the k-th TranslationWorker
                 \* (so it also counts the workers started)
    runs,        \* runs[k]: the k-th TranslationWorker, while the program still holds it:
                 \* its thread's position, fields and locals, and the callbacks it got
    sigq,        \* queued finished/error signals not yet delivered on the UI thread
    ui,          \* what the UI thread is doing: idle, or inside save_settings
    overlay,     \* what ResultOverlay shows (last show_content)
    warning,     \* the last trigger_translation call showed the "no region" QMessageBox
    nSaves       \* how many times save_settings was entered

vars == <<config, cfgFile, tm, costFile, today, worker, runs, sigq, ui, overlay,
          warning, nSaves>>

----------------------------------------------------------------------------
(* Bounds of the exploration *)

\* accepted triggers that start a worker
MaxRuns == 2
\* times the user saves the settings dialog
MaxSaves == 1
\* the last calendar date the clock reaches (the program starts on date 1)
MaxDay == 2
\* pieces a configured api_base or proxy is put together from
MaxPieces == 3

----------------------------------------------------------------------------
(* Strings *)

Whitespace == {" "}

RECURSIVE LStrip(_)
LStrip(s) == IF s # <<>> /\ Head(s) \in Whitespace THEN LStrip(Tail(s)) ELSE s

RECURSIVE RStrip(_)
RStrip(s) ==
    IF s # <<>> /\ s[Len(s)] \in Whitespace THEN RStrip(SubSeq(s, 1, Len(s) - 1)) ELSE s

\* str.strip()
Strip(s) == RStrip(LStrip(s))

\* str.startswith(prefix)
StartsWith(s, prefix) == Len(s) >= Len(prefix) /\ SubSeq(s, 1, Len(prefix)) = prefix

\* str.endswith(suffix)
EndsWith(s, suffix) ==
    Len(s) >= Len(suffix) /\ SubSeq(s, Len(s) - Len(suffix) + 1, Len(s)) = suffix

\* str.rstrip('/')
RECURSIVE RStripSlash(_)
RStripSlash(s) ==
    IF s # <<>> /\ s[Len(s)] = "/" THEN RStripSlash(SubSeq(s, 1, Len(s) - 1)) ELSE s

----------------------------------------------------------------------------
(* ConfigManager *)

\* the keys SettingsDialog.save_settings writes, in the order it writes them
SaveOrder ==
    <<"language", "api_base", "api_key", "model", "timeout", "proxy",
      "advanced_mode", "custom_prompt">>

default_config ==
    [api_base      |-> <<"o", "/", "v", "1">>,
     api_key       |-> <<>>,
     model         |-> "gpt-3.5-turbo",
     timeout       |-> 30,
     region        |-> <<0, 0, 0, 0>>,
     custom_prompt |-> "translate",
     proxy         |-> <<>>,
     language      |-> "zh_CN",
     advanced_mode |-> FALSE]

Update_KnownOnly(base, loaded) ==
    [k \in DOMAIN base |-> IF k \in DOMAIN loaded THEN loaded[k] ELSE base[k]]

\* dict.update: the keys of loaded override those of base
Update(base, loaded) ==
    [k \in DOMAIN base \cup DOMAIN loaded |->
        IF k \in DOMAIN loaded THEN loaded[k] ELSE base[k]]

\* ConfigManager.load_config: "absent" is a missing or unreadable file
load_config(file) ==
    IF file = <<"absent">> THEN default_config ELSE Update(default_config, file[2])

\* ConfigManager.get(key)
ConfigGet(cfg, key) == IF key \in DOMAIN cfg THEN cfg[key] ELSE default_config[key]

\* ConfigManager.set(key, value): the dict after self.config[key] = value
ConfigSet(cfg, key, value) == [cfg EXCEPT ![key] = value]

\* ConfigManager.tr(key): the text of key in the configured language
Tr(cfg, key) ==
    [lang |-> ConfigGet(cfg, "language"), key |-> key, status |-> 0, detail |-> <<>>]

\* a message that is not localized; status is the HTTP status it quotes, 0 if none
Plain(text, status) == [lang |-> "-", key |-> text, status |-> status, detail |-> <<>>]

\* configurations config.json can hold at startup (region: [x, y, w, h])
ConfigFiles ==
    {<<"absent">>,
     <<"json", [api_key |-> <<"s", "k">>, region |-> <<0, 0, 2, 2>>]>>,
     <<"json", [api_key |-> <<"s", "k">>, region |-> <<0, 0, 2, 2>>,
                advanced_mode |-> TRUE]>>,
     <<"json", [api_key |-> <<" ">>, region |-> <<0, 0, -1, 2>>,
                advanced_mode |-> TRUE]>>,
     <<"json", [api_key |-> <<"s", "k">>, region |-> <<0, 0, 0, 2>>]>>,
     <<"json", [api_key |-> <<"s", "k">>, region |-> <<0, 0, 2, 0>>]>>}

\* what the user can have typed into the SettingsDialog when pressing Save
Forms ==
    {[language |-> "en_US", api_base |-> <<"x", "/">>,
      api_key |-> <<"k", "2">>, model |-> "gpt-4o", timeout |-> 5,
      proxy |-> <<"h", ":", "1">>, advanced_mode |-> TRUE, custom_prompt |-> "polish"]}

\* sizes RegionSelector can emit: QRect(start, end).normalized() is at least 1 x 1
SelectableDims == {2}

----------------------------------------------------------------------------
(* TokenManager *)

\* JSON values of cost.json: an object with members f (a function of the member
\* names), and a value that is not an object (a list)
Obj(f) == [type |-> "object", val |-> f]

NotObj == [type |-> "array", val |-> <<>>]

IsObj(v) == v.type = "object"

\* {"input": i, "output": o}
Counts(i, o) == [input |-> i, output |-> o]

\* {"history": {}, "total": {"input": 0, "output": 0}}
EmptyLedger == Obj([history |-> Obj(<<>>), total |-> Obj(Counts(0, 0))])

\* TokenManager.load_data: a missing file and a file json.load fails on give the
\* empty ledger, any other file gives whatever JSON value it holds
load_data(file) == IF file[1] \in {"absent", "corrupt"} THEN EmptyLedger ELSE file[2]

\* does record_usage raise: self.data, its "history" or its "total" is not a dict
\* (TypeError at line 217, 219 or 226)
record_raises(t) ==
    \/ ~IsObj(t.data)
    \/ "history" \in DOMAIN t.data.val /\ ~IsObj(t.data.val.history)
    \/ "total" \in DOMAIN t.data.val /\ ~IsObj(t.data.val.total)

record_usage_NoTotal(t, day, input_tokens, output_tokens) ==
    LET h    == t.data.val.history.val
        old  == IF day \in DOMAIN h THEN h[day] ELSE Counts(0, 0)
        hist == [d \in DOMAIN h \cup {day} |->
                    IF d = day
                    THEN Counts(old.input + input_tokens, old.output + output_tokens)
                    ELSE h[d]]
    IN  [t EXCEPT !.session_input = @ + input_tokens,
                  !.session_output = @ + output_tokens,
                  !.data = Obj([t.data.val EXCEPT !.history = Obj(hist)])]

record_usage_SessionOnly(t, day, input_tokens, output_tokens) ==
    [t EXCEPT !.session_input = @ + input_tokens, !.session_output = @ + output_tokens]

\* TokenManager.record_usage, save_data apart: the manager after the updates made
\* before the method returns or raises
record_usage(t, day, input_tokens, output_tokens) ==
    LET s == [t EXCEPT !.session_input = @ + input_tokens,
                       !.session_output = @ + output_tokens]
    IN  IF ~IsObj(t.data) THEN s
        ELSE
        LET m1 == IF "history" \in DOMAIN t.data.val THEN t.data.val
                  ELSE t.data.val @@ ("history" :> Obj(<<>>))
        IN  IF ~IsObj(m1.history) THEN [s EXCEPT !.data = Obj(m1)]
            ELSE
            LET h    == m1.history.val
                old  == IF day \in DOMAIN h THEN h[day] ELSE Counts(0, 0)
                hist == [d \in DOMAIN h \cup {day} |->
                            IF d = day
                            THEN Counts(old.input + input_tokens,
                                        old.output + output_tokens)
                            ELSE h[d]]
                m2   == [m1 EXCEPT !.history = Obj(hist)]
                m3   == IF "total" \in DOMAIN m2 THEN m2
                        ELSE m2 @@ ("total" :> Obj(Counts(0, 0)))
            IN  IF ~IsObj(m3.total) THEN [s EXCEPT !.data = Obj(m3)]
                ELSE [s EXCEPT !.data =
                        Obj([m3 EXCEPT !.total =
                                Obj(Counts(m3.total.val.input + input_tokens,
                                           m3.total.val.output + output_tokens))])]

\* TokenManager.get_stats on the date day
get_stats(t, day) ==
    LET m == t.data.val
    IN  [session |-> Counts(t.session_input, t.session_output),
         today   |-> IF "history" \in DOMAIN m /\ day \in DOMAIN m.history.val
                     THEN m.history.val[day] ELSE Counts(0, 0),
         total   |-> IF "total" \in DOMAIN m THEN m.total.val ELSE Counts(0, 0)]

\* dict.get(key, 0) on a usage dict
UsageGet(usage, key) == IF key \in DOMAIN usage THEN usage[key] ELSE 0

\* on_translation_success, the ledger part: "if usage:" then record_usage
SuccessLedger(t, day, usage) ==
    IF DOMAIN usage # {}
    THEN record_usage(t, day, UsageGet(usage, "prompt_tokens"),
                      UsageGet(usage, "completion_tokens"))
    ELSE t

\* on_translation_success leaves through an exception of record_usage
SuccessRaises(t, usage) == DOMAIN usage # {} /\ record_raises(t)

ErrorLedger_Records(t, day) == record_usage(t, day, 1, 1)

\* on_translation_error, the ledger part: the handler never touches the ledger
ErrorLedger(t, day) == t

----------------------------------------------------------------------------
(* TranslationWorker *)

\* what a capture can hand over: PNG bytes, or zero bytes (a failed save)
ImageData == {"png", "empty"}

\* pytesseract.image_to_string: an engine exception, or the text it extracts
OcrResults == {<<"raise">>, <<"text", <<" ">>>>, <<"text", <<"h", "i">>>>}

\* usage objects a response can carry
Usages ==
    {<<>>,
     [k \in {"prompt_tokens", "completion_tokens"} |->
        IF k = "prompt_tokens" THEN 2 ELSE 1]}

\* A response body: text is response.text, json whether response.json() decodes
\* it, content what result_json['choices'][0]['message']['content'] evaluates to
\* (<<"raise">>: KeyError, IndexError or TypeError; <<"null">>: None; <<"str", s>>),
\* usage the "usage" member (<<>> when there is none), error the body's
\* error.message (<<>> when there is none).
NotJson ==
    [text |-> "<html>", json |-> FALSE, content |-> <<"raise">>, usage |-> <<>>,
     error |-> <<>>]

ErrorJson ==
    [text |-> "{error:{message:invalid key}}", json |-> TRUE, content |-> <<"raise">>,
     usage |-> <<>>, error |-> <<"invalid key">>]

\* a completion that carries the usage member u
Completion(text, u) ==
    [text |-> text, json |-> TRUE, content |-> <<"str", "translated">>, usage |-> u,
     error |-> <<>>]

\* the response bodies of the program's runs: the usage member absent or in Usages
Bodies ==
    {NotJson, ErrorJson, Completion("{choices}", <<>>)}
    \cup {Completion(IF u = <<>> THEN "{choices,usage:{}}" ELSE "{choices,usage:{2,1}}",
                     <<u>>) : u \in Usages}

\* what client.post does: raise (timeout, connection error; cause is str(e)) or
\* return a response
HttpResults ==
    {[kind |-> "raise", status |-> 0, body |-> NotJson, cause |-> "timed out"],
     [kind |-> "response", status |-> 401, body |-> ErrorJson]}
    \cup {[kind |-> "response", status |-> 200, body |-> b] : b \in Bodies}

\* the locals of run(): a one-element sequence once assigned, <<>> before
NoLocals ==
    [is_advanced |-> <<>>, custom_prompt |-> <<>>, api_base |-> <<>>, api_key |-> <<>>,
     proxy |-> <<>>, model |-> <<>>, timeout |-> <<>>, language |-> <<>>, text |-> <<>>,
     proxies_arg |-> <<>>, target_url |-> <<>>, exc |-> <<>>, response |-> <<>>,
     image_mode |-> <<>>, messages |-> <<>>]

\* TranslationWorker.__init__: self.config is the ConfigManager itself, not a copy
WorkerConfig(run) == config

\* QThread.isRunning(): from start() until run() has returned
ThreadRunning(k) == k \in DOMAIN runs /\ runs[k].pc # "finished"

IsRunning_NoGuard(w) == FALSE

\* "self.worker is not None and self.worker.isRunning()"
IsRunning(w) == w # 0 /\ ThreadRunning(w)

TextEmpty_NoStrip(text) == text = <<>>

\* "text = text.strip()" ... "if not text"
TextEmpty(text) == Strip(text) = <<>>

KeyMissing_NoStrip(api_key) == api_key = <<>>

\* "api_key = self.config.get("api_key").strip()" ... "if not api_key"
KeyMissing(api_key) == Strip(api_key) = <<>>

\* "/chat/completions"
SubPath ==
    <<"/", "c", "h", "a", "t", "/", "c", "o", "m", "p", "l", "e", "t", "i", "o", "n", "s">>

\* "http" and "http://"
Http == <<"h", "t", "t", "p">>

HttpScheme == Http \o <<":", "/", "/">>

TargetUrl_Append(api_base) == api_base \o SubPath

\* lines 332-335: target_url from the local api_base (the stripped setting)
TargetUrl(api_base) ==
    IF EndsWith(api_base, SubPath) THEN api_base ELSE RStripSlash(api_base) \o SubPath

\* lines 325-330: proxies_arg from the local proxy_url (the stripped setting);
\* <<>> is None
ProxiesArg(proxy_url) ==
    IF proxy_url # <<>> /\ Strip(proxy_url) # <<>>
    THEN LET p_url == Strip(proxy_url)
         IN  IF ~StartsWith(p_url, Http) THEN <<HttpScheme \o p_url>> ELSE <<p_url>>
    ELSE <<>>

\* "if response.status_code != 200"
StatusOk(status) == status = 200

\* the usage run() emits: result_json.get("usage", {"prompt_tokens": 0, "completion_tokens": 0})
UsageOf(body) ==
    IF body.usage = <<>>
    THEN [k \in {"prompt_tokens", "completion_tokens"} |-> 0]
    ELSE body.usage[1]

\* lines 368-373 go through: the body decodes, the content path evaluates, and
\* finished.emit(content, usage) takes content (finished is pyqtSignal(str, dict):
\* emit raises TypeError on a content that is not a str)
Parses(body) == body.json /\ body.content[1] = "str"

\* "API Error ({response.status_code}): {response.text}"
ApiErrorText(status, text) ==
    [lang |-> "-", key |-> "Error: API Error", status |-> status, detail |-> <<text>>]

NetErrorText_NoCause(cfg, cause) == Tr(cfg, "Error: msg_net_error")

\* "Error: " + "{self.config.tr('msg_net_error')}: {str(e)}" (lines 360-362, 380)
NetErrorText(cfg, cause) == [Tr(cfg, "Error: msg_net_error") EXCEPT !.detail = <<cause>>]

EmitError_Dropped(q, k, msg) == q

\* self.error.emit(msg) from the worker thread: queued for the UI thread
EmitError(q, k, msg) == Append(q, [run |-> k, sig |-> "error", text |-> msg, usage |-> <<>>])

\* self.finished.emit(content, usage)
EmitFinished(q, k, content, usage) ==
    Append(q, [run |-> k, sig |-> "finished",
               text |-> Plain(content, 0), usage |-> usage])

Fail_Retry(k, msg, loc) ==
    /\ sigq' = EmitError(sigq, k, msg)
    /\ runs' = [runs EXCEPT ![k].loc = loc]

\* run k emits an error signal and heads for the end of run()
Fail(k, msg, loc) ==
    /\ sigq' = EmitError(sigq, k, msg)
    /\ runs' = [runs EXCEPT ![k].pc = "exit", ![k].loc = loc]

\* lines 258-264: Image.open; modes is what image.mode can be for the PNG
DecodeOf(k, modes) ==
    /\ runs[k].pc = "decode"
    /\ IF runs[k].image_data = "png"
       THEN /\ \E mode \in modes :
                 runs' = [runs EXCEPT ![k].pc = "mode", ![k].loc.image_mode = <<mode>>]
            /\ UNCHANGED sigq
       ELSE Fail(k, Plain("Image Data Error", 0), runs[k].loc)
    /\ UNCHANGED <<config, cfgFile, tm, costFile, today, worker, ui, overlay,
                   warning, nSaves>>

\* the image of the program's runs: an RGB screenshot
Decode(k) == DecodeOf(k, {"RGB"})

JpegMode_NoConvert(mode) == mode

\* lines 274-275: the mode of the image that is saved as JPEG
JpegMode(mode) == IF mode \in {"RGBA", "P"} THEN "RGB" ELSE mode

\* image.save(format='JPEG') raises OSError "cannot write mode ... as JPEG"
SaveJpegRaises(mode) == mode \notin {"1", "L", "RGB", "CMYK"}

\* lines 281-294: the one message of a vision request
VisionMessages(prompt, mode) ==
    <<[role |-> "user",
       content |-> <<[type |-> "text", text |-> prompt],
                     [type |-> "image_url",
                      image_url |-> [url |-> [prefix |-> "data:image/jpeg;base64,",
                                              jpeg |-> mode]]]>>]>>

\* lines 312-313: the one message of an OCR request
OcrMessages(prompt, text) ==
    <<[role |-> "user", content |-> [prompt |-> prompt, text |-> text]]>>

Mode_KeyFirst(k) ==
    /\ runs[k].pc = "mode"
    /\ LET adv == ConfigGet(WorkerConfig(k), "advanced_mode")
       IN  IF KeyMissing(ConfigGet(WorkerConfig(k), "api_key"))
           THEN Fail(k, Tr(WorkerConfig(k), "msg_api_key_missing"), runs[k].loc)
           ELSE /\ runs' = [runs EXCEPT ![k].pc = IF adv THEN "vision" ELSE "ocr",
                                        ![k].loc.is_advanced = <<adv>>]
                /\ UNCHANGED sigq
    /\ UNCHANGED <<config, cfgFile, tm, costFile, today, worker, ui, overlay,
                   warning, nSaves>>

\* line 267-270: the mode switch
Mode(k) ==
    /\ runs[k].pc = "mode"
    /\ LET adv == ConfigGet(WorkerConfig(k), "advanced_mode")
       IN  runs' = [runs EXCEPT ![k].pc = IF adv THEN "vision" ELSE "ocr",
                                ![k].loc.is_advanced = <<adv>>]
    /\ UNCHANGED <<config, cfgFile, tm, costFile, today, worker, sigq, ui, overlay,
                   warning, nSaves>>

\* lines 271-295: vision encoding; convert/save can raise into the outer handler
Vision(k) ==
    /\ runs[k].pc = "vision"
    /\ \E ok \in BOOLEAN :
         LET mode   == JpegMode(runs[k].loc.image_mode[1])
             prompt == ConfigGet(WorkerConfig(k), "custom_prompt")
         IN  IF ~ok
             THEN Fail(k, Plain("Error: unexpected", 0), runs[k].loc)
             ELSE IF SaveJpegRaises(mode)
             THEN Fail(k, Plain("Error: cannot write mode as JPEG", 0), runs[k].loc)
             ELSE /\ runs' = [runs EXCEPT
                        ![k].pc = "guard",
                        ![k].loc.custom_prompt = <<prompt>>,
                        ![k].loc.messages = <<VisionMessages(prompt, mode)>>]
                  /\ UNCHANGED sigq
    /\ UNCHANGED <<config, cfgFile, tm, costFile, today, worker, ui, overlay,
                   warning, nSaves>>

\* lines 297-313: OCR
Ocr(k) ==
    /\ runs[k].pc = "ocr"
    /\ \E res \in OcrResults :
         IF res[1] = "raise"
         THEN Fail(k, Plain("OCR Error", 0), runs[k].loc)
         ELSE LET withText == [runs[k].loc EXCEPT !.text = <<res[2]>>]
              IN  IF TextEmpty(res[2])
                  THEN Fail(k, Tr(WorkerConfig(k), "msg_ocr_empty"),
                            [withText EXCEPT
                                !.language = <<ConfigGet(WorkerConfig(k), "language")>>])
                  ELSE /\ runs' = [runs EXCEPT
                             ![k].pc = "guard",
                             ![k].loc =
                                [withText EXCEPT
                                    !.custom_prompt =
                                        <<ConfigGet(WorkerConfig(k), "custom_prompt")>>,
                                    !.messages =
                                        <<OcrMessages(
                                            ConfigGet(WorkerConfig(k), "custom_prompt"),
                                            Strip(res[2]))>>]]
                       /\ UNCHANGED sigq
    /\ UNCHANGED <<config, cfgFile, tm, costFile, today, worker, ui, overlay,
                   warning, nSaves>>

\* lines 316-322: read the endpoint settings, the api_key guard
Guard(k) ==
    /\ runs[k].pc = "guard"
    /\ LET cfg == WorkerConfig(k)
           loc == [runs[k].loc EXCEPT
                     !.api_base = <<ConfigGet(cfg, "api_base")>>,
                     !.api_key  = <<ConfigGet(cfg, "api_key")>>,
                     !.proxy    = <<ConfigGet(cfg, "proxy")>>]
       IN  IF KeyMissing(ConfigGet(cfg, "api_key"))
           THEN Fail(k, Tr(cfg, "msg_api_key_missing"),
                     [loc EXCEPT !.language = <<ConfigGet(cfg, "language")>>])
           ELSE /\ runs' = [runs EXCEPT ![k].pc = "post", ![k].loc = loc]
                /\ UNCHANGED sigq
    /\ UNCHANGED <<config, cfgFile, tm, costFile, today, worker, ui, overlay,
                   warning, nSaves>>

\* lines 324-380: build the request, POST it once, classify the response; results
\* is what the network and the server can answer
PostOf(k, results) ==
    /\ runs[k].pc = "post"
    /\ LET cfg == WorkerConfig(k)
           loc == [runs[k].loc EXCEPT
                     !.proxies_arg = <<ProxiesArg(Strip(runs[k].loc.proxy[1]))>>,
                     !.target_url  = <<TargetUrl(Strip(runs[k].loc.api_base[1]))>>,
                     !.model   = <<ConfigGet(cfg, "model")>>,
                     !.timeout = <<ConfigGet(cfg, "timeout")>>]
       IN  \E r \in results :
             /\ IF r.kind = "raise"
                THEN sigq' = EmitError(sigq, k, NetErrorText(cfg, r.cause))
                ELSE IF ~StatusOk(r.status)
                THEN sigq' = EmitError(sigq, k, ApiErrorText(r.status, r.body.text))
                ELSE IF ~Parses(r.body)
                THEN sigq' = EmitError(sigq, k, Plain("Error: Parse Error", 0))
                ELSE sigq' = EmitFinished(sigq, k, r.body.content[2], UsageOf(r.body))
             /\ runs' = [runs EXCEPT
                    ![k].pc = "exit",
                    ![k].loc = IF r.kind = "raise"
                               THEN [loc EXCEPT !.exc = <<r.cause>>,
                                                !.language = <<ConfigGet(cfg, "language")>>]
                               ELSE [loc EXCEPT !.response = <<r>>],
                    ![k].posts = @ + 1]
    /\ UNCHANGED <<config, cfgFile, tm, costFile, today, worker, ui, overlay,
                   warning, nSaves>>

\* the POST of the program's runs
Post(k) == PostOf(k, HttpResults)

\* run() returns: the thread finishes, its frame and locals are gone
Exit(k) ==
    /\ runs[k].pc = "exit"
    /\ runs' = [runs EXCEPT ![k].pc = "finished", ![k].loc = NoLocals,
                            ![k].snap = <<>>]
    /\ UNCHANGED <<config, cfgFile, tm, costFile, today, worker, sigq, ui, overlay,
                   warning, nSaves>>

WorkerStep(k) ==
    \/ Decode(k)
    \/ Mode(k)
    \/ Vision(k)
    \/ Ocr(k)
    \/ Guard(k)
    \/ Post(k)
    \/ Exit(k)

----------------------------------------------------------------------------
(* MainApplication and SettingsDialog: the UI thread *)

\* the worker threads that are alive
Alive == {k \in DOMAIN runs : ThreadRunning(k)}

\* run k has a signal queued
Pending(q, k) == \E i \in 1..Len(q) : q[i].run = k

\* "self.worker = TranslationWorker(...)" lets go of the previous worker object:
\* what stays is the new worker, the threads still running and the senders of
\* queued signals
Collect(rs, q) == [k \in {j \in DOMAIN rs : rs[j].pc # "finished" \/ Pending(q, j)} |-> rs[k]]

RegionInvalid_And(region) == region[3] = 0 /\ region[4] = 0

\* "if region[2] == 0 or region[3] == 0" (0-based in the code)
RegionInvalid(region) == region[3] = 0 \/ region[4] = 0

CaptureResults_Deferred == {"uncaptured"}

\* the capture step of trigger_translation (lines 830-847): image bytes, or an exception
CaptureResults == ImageData \cup {"raise"}

\* ResultOverlay.show_content(text, usage_info): the overlay shows a notice of
\* trigger_translation (run 0) or the result or the error of run k
Shown(kind, k) == [kind |-> kind, run |-> k]

TriggerRejected_Cancels ==
    /\ ui.pc = "idle"
    /\ IsRunning(worker)
    /\ overlay' = Shown("msg_prev_task", 0)
    /\ warning' = FALSE
    /\ runs' = [runs EXCEPT ![worker].pc = "exit"]
    /\ UNCHANGED <<config, cfgFile, tm, costFile, today, worker, sigq, ui, nSaves>>

\* lines 816-818: a worker is running
TriggerRejected ==
    /\ ui.pc = "idle"
    /\ IsRunning(worker)
    /\ overlay' = Shown("msg_prev_task", 0)
    /\ warning' = FALSE
    /\ UNCHANGED <<config, cfgFile, tm, costFile, today, worker, runs, sigq, ui, nSaves>>

\* lines 820-823: no region configured (QMessageBox.warning)
TriggerNoRegion ==
    /\ ui.pc = "idle"
    /\ ~IsRunning(worker)
    /\ RegionInvalid(ConfigGet(config, "region"))
    /\ warning' = TRUE
    /\ UNCHANGED <<config, cfgFile, tm, costFile, today, worker, runs, sigq, ui,
                   overlay, nSaves>>

\* lines 825-859: capture on the UI thread, then start a worker on the bytes,
\* or show the capture failure
TriggerCapture ==
    /\ ui.pc = "idle"
    /\ ~IsRunning(worker)
    /\ ~RegionInvalid(ConfigGet(config, "region"))
    /\ worker < MaxRuns
    /\ \E cap \in CaptureResults :
         IF cap = "raise"
         THEN /\ overlay' = Shown("msg_screenshot_fail", 0)
              /\ warning' = FALSE
              /\ UNCHANGED <<worker, runs>>
         ELSE /\ overlay' = Shown("msg_processing", 0)
              /\ runs' = Collect(runs, sigq) @@
                          ((worker + 1) :> [pc |-> "decode", image_data |-> cap,
                                            loc |-> NoLocals, snap |-> <<config>>,
                                            posts |-> 0, fired |-> <<>>])
              /\ worker' = worker + 1
              /\ warning' = FALSE
    /\ UNCHANGED <<config, cfgFile, tm, costFile, today, sigq, ui, nSaves>>

\* the queued signal at the head is delivered: on_translation_success (lines
\* 861-870) or on_translation_error (lines 872-874)
Deliver ==
    /\ ui.pc = "idle"
    /\ sigq # <<>>
    /\ LET s == Head(sigq)
       IN  /\ sigq' = Tail(sigq)
           /\ IF s.sig = "finished"
              THEN /\ tm' = SuccessLedger(tm, today, s.usage)
                   /\ overlay' = IF SuccessRaises(tm, s.usage)
                                 THEN overlay ELSE Shown("result", s.run)
                   /\ costFile' = IF DOMAIN s.usage # {} /\ ~SuccessRaises(tm, s.usage)
                                  THEN <<"json", tm'.data>> ELSE costFile
                   /\ runs' = [runs EXCEPT ![s.run].fired = Append(@, "success")]
              ELSE /\ tm' = ErrorLedger(tm, today)
                   /\ overlay' = Shown("error", s.run)
                   /\ costFile' = IF tm'.data # tm.data
                                  THEN <<"json", tm'.data>> ELSE costFile
                   /\ runs' = [runs EXCEPT ![s.run].fired = Append(@, "failure")]
    /\ UNCHANGED <<config, cfgFile, today, worker, ui, warning, nSaves>>

\* on_region_selected (lines 802-805)
RegionSelected ==
    /\ ui.pc = "idle"
    /\ \E w \in SelectableDims, h \in SelectableDims :
         /\ config' = ConfigSet(config, "region", <<0, 0, w, h>>)
         /\ cfgFile' = <<"json", config'>>
    /\ UNCHANGED <<tm, costFile, today, worker, runs, sigq, ui, overlay,
                   warning, nSaves>>

\* save_settings is entered with what the dialog holds (lines 524-526)
SaveSettingsBegin ==
    /\ ui.pc = "idle"
    /\ nSaves < MaxSaves
    /\ nSaves' = nSaves + 1
    /\ \E form \in Forms : ui' = [pc |-> "saving", i |-> 1, form |-> <<form>>]
    /\ UNCHANGED <<config, cfgFile, tm, costFile, today, worker, runs, sigq, overlay,
                   warning>>

\* one config.set of save_settings (lines 528-535), each written through to the file
SaveSettingsStep ==
    /\ ui.pc = "saving"
    /\ LET key == SaveOrder[ui.i]
       IN  /\ config' = ConfigSet(config, key, ui.form[1][key])
           /\ cfgFile' = <<"json", config'>>
    /\ ui' = IF ui.i = Len(SaveOrder)
             THEN [pc |-> "idle", i |-> 0, form |-> <<>>]
             ELSE [ui EXCEPT !.i = @ + 1]
    /\ UNCHANGED <<tm, costFile, today, worker, runs, sigq, overlay, warning, nSaves>>

----------------------------------------------------------------------------
(* The program *)

Init ==
    /\ cfgFile \in ConfigFiles
    /\ config = load_config(cfgFile)
    /\ costFile = <<"absent">>
    /\ tm = [session_input |-> 0, session_output |-> 0, data |-> load_data(costFile)]
    /\ today = 1
    /\ worker = 0
    /\ runs = <<>>
    /\ sigq = <<>>
    /\ ui = [pc |-> "idle", i |-> 0, form |-> <<>>]
    /\ overlay = Shown("Waiting...", 0)
    /\ warning = FALSE
    /\ nSaves = 0

Worker == \E k \in DOMAIN runs : WorkerStep(k)

Next ==
    \/ TriggerRejected
    \/ TriggerNoRegion
    \/ TriggerCapture
    \/ Deliver
    \/ RegionSelected
    \/ SaveSettingsBegin
    \/ SaveSettingsStep
    \/ Worker

Spec == Init /\ [][Next]_vars

\* the program while the settings dialog is not used
RunNext ==
    \/ TriggerRejected
    \/ TriggerNoRegion
    \/ TriggerCapture
    \/ Deliver
    \/ RegionSelected
    \/ Worker

\* threads run and the event loop serves its queue: every worker thread takes its
\* next step and every queued signal is delivered
FairSpec ==
    /\ Init
    /\ [][RunNext]_vars
    /\ \A k \in 1..MaxRuns : WF_vars(k \in DOMAIN runs /\ WorkerStep(k))
    /\ WF_vars(Deliver)

----------------------------------------------------------------------------
(* One run against every kind of response *)

\* usage members: empty, one counter only, both counters
AnyUsages ==
    Usages \cup {[k \in {"prompt_tokens"} |-> 2], [k \in {"completion_tokens"} |-> 1]}

\* bodies a server can send: not JSON, JSON that is not an object, an object
\* without choices, with an empty choices list, with a null content, an error
\* object, and completions with the usage member absent or in AnyUsages
AnyBodies ==
    {NotJson, ErrorJson,
     [text |-> "[]", json |-> TRUE, content |-> <<"raise">>, usage |-> <<>>,
      error |-> <<>>],
     [text |-> "{}", json |-> TRUE, content |-> <<"raise">>, usage |-> <<>>,
      error |-> <<>>],
     [text |-> "{choices:[]}", json |-> TRUE, content |-> <<"raise">>, usage |-> <<>>,
      error |-> <<>>],
     [text |-> "{choices:[{message:{content:null}}]}", json |-> TRUE,
      content |-> <<"null">>, usage |-> <<>>, error |-> <<>>],
     Completion("{choices}", <<>>)}
    \cup {Completion(IF u = <<>> THEN "{choices,usage:{}}"
                     ELSE IF DOMAIN u = {"prompt_tokens"} THEN "{choices,usage:{2,-}}"
                     ELSE IF DOMAIN u = {"completion_tokens"} THEN "{choices,usage:{-,1}}"
                     ELSE "{choices,usage:{2,1}}",
                     <<u>>) : u \in AnyUsages}

\* status codes a server can answer with
AnyStatus == {200, 201, 204, 301, 401, 500}

Responses ==
    {[kind |-> "raise", status |-> 0, body |-> NotJson, cause |-> "timed out"],
     [kind |-> "raise", status |-> 0, body |-> NotJson, cause |-> "connection refused"]}
    \cup {[kind |-> "response", status |-> st, body |-> b] :
            st \in AnyStatus, b \in AnyBodies}

\* the program started with an api_key and a region, in OCR or in vision mode
RespInit ==
    /\ Init
    /\ ConfigGet(config, "api_key") = <<"s", "k">>
    /\ ConfigGet(config, "region") = <<0, 0, 2, 2>>

\* the first accepted trigger
FirstTrigger == worker = 0 /\ TriggerCapture

\* a worker thread takes its next step; the server answers with any of Responses
RespWorker ==
    \E k \in DOMAIN runs :
        \/ Decode(k)
        \/ Mode(k)
        \/ Vision(k)
        \/ Ocr(k)
        \/ Guard(k)
        \/ PostOf(k, Responses)
        \/ Exit(k)

RespNext ==
    \/ FirstTrigger
    \/ RespWorker
    \/ Deliver

RespSpec == RespInit /\ [][RespNext]_vars

----------------------------------------------------------------------------
(* One run for every configured api_base and proxy *)

\* the strings put together from at most n of the pieces
RECURSIVE Strings(_, _)
Strings(pieces, n) ==
    IF n = 0 THEN {<<>>}
    ELSE LET shorter == Strings(pieces, n - 1)
         IN  shorter \cup {t \o piece : t \in shorter, piece \in pieces}

\* api_base settings: blanks, slashes, a host, the sub-path
Bases == Strings({<<" ">>, <<"/">>, <<"a">>, SubPath}, MaxPieces)

\* proxy settings: blanks, a host, "http", another scheme name, "://"
Proxies == Strings({<<" ">>, <<"h">>, Http, <<"s">>, <<":", "/", "/">>}, MaxPieces)

\* config.json with an api_key, a region and an api_base or a proxy
NormFiles ==
    {<<"json", [api_key |-> <<"s", "k">>, region |-> <<0, 0, 2, 2>>,
                advanced_mode |-> adv, api_base |-> b]>> :
        adv \in BOOLEAN, b \in Bases}
    \cup {<<"json", [api_key |-> <<"s", "k">>, region |-> <<0, 0, 2, 2>>,
                     advanced_mode |-> adv, proxy |-> pr]>> :
            adv \in BOOLEAN, pr \in Proxies}

NormInit ==
    /\ cfgFile \in NormFiles
    /\ config = load_config(cfgFile)
    /\ costFile = <<"absent">>
    /\ tm = [session_input |-> 0, session_output |-> 0, data |-> load_data(costFile)]
    /\ today = 1
    /\ worker = 0
    /\ runs = <<>>
    /\ sigq = <<>>
    /\ ui = [pc |-> "idle", i |-> 0, form |-> <<>>]
    /\ overlay = Shown("Waiting...", 0)
    /\ warning = FALSE
    /\ nSaves = 0

\* the server answers 200 with a completion, or the request fails
NormResponses ==
    {[kind |-> "raise", status |-> 0, body |-> NotJson, cause |-> "timed out"],
     [kind |-> "response", status |-> 200, body |-> Completion("{choices}", <<>>)]}

NormWorker ==
    \E k \in DOMAIN runs :
        \/ Decode(k)
        \/ Mode(k)
        \/ Vision(k)
        \/ Ocr(k)
        \/ Guard(k)
        \/ PostOf(k, NormResponses)
        \/ Exit(k)

NormNext ==
    \/ FirstTrigger
    \/ NormWorker
    \/ Deliver

NormSpec == NormInit /\ [][NormNext]_vars

----------------------------------------------------------------------------
(* One run for every mode of the captured image *)

\* image.mode of a captured PNG: plain colour, with an alpha channel, with a palette
ImageModes == {"RGB", "RGBA", "P"}

VisionWorker ==
    \E k \in DOMAIN runs :
        \/ DecodeOf(k, ImageModes)
        \/ Mode(k)
        \/ Vision(k)
        \/ Ocr(k)
        \/ Guard(k)
        \/ PostOf(k, Responses)
        \/ Exit(k)

VisionNext ==
    \/ FirstTrigger
    \/ VisionWorker
    \/ Deliver

VisionSpec == RespInit /\ [][VisionNext]_vars

----------------------------------------------------------------------------
(* The settings over changes and program starts *)

\* config.json at startup: missing, holding nothing but a key the program does
\* not know, holding some of its keys, holding such a key next to some of them
KeptFiles ==
    {<<"absent">>,
     <<"json", [theme |-> "dark"]>>,
     <<"json", [api_key |-> <<"s", "k">>, region |-> <<0, 0, 2, 2>>]>>,
     <<"json", [api_key |-> <<"s", "k">>, language |-> "en_US", theme |-> "dark"]>>}

ConfigInit ==
    /\ cfgFile \in KeptFiles
    /\ config = load_config(cfgFile)
    /\ costFile = <<"absent">>
    /\ tm = [session_input |-> 0, session_output |-> 0, data |-> load_data(costFile)]
    /\ today = 1
    /\ worker = 0
    /\ runs = <<>>
    /\ sigq = <<>>
    /\ ui = [pc |-> "idle", i |-> 0, form |-> <<>>]
    /\ overlay = Shown("Waiting...", 0)
    /\ warning = FALSE
    /\ nSaves = 0

\* the program is quit while nothing is in flight and started again:
\* MainApplication.__init__ builds a new ConfigManager and TokenManager from the
\* files (worker stays as the count of the workers started so far)
Restart ==
    /\ ui.pc = "idle"
    /\ Alive = {}
    /\ sigq = <<>>
    /\ config' = load_config(cfgFile)
    /\ tm' = [session_input |-> 0, session_output |-> 0, data |-> load_data(costFile)]
    /\ runs' = <<>>
    /\ overlay' = Shown("Waiting...", 0)
    /\ warning' = FALSE
    /\ UNCHANGED <<cfgFile, costFile, today, worker, sigq, ui, nSaves>>

ConfigNext ==
    \/ RegionSelected
    \/ SaveSettingsBegin
    \/ SaveSettingsStep
    \/ TriggerNoRegion
    \/ FirstTrigger
    \/ Worker
    \/ Deliver
    \/ Restart

ConfigSpec == ConfigInit /\ [][ConfigNext]_vars

----------------------------------------------------------------------------
(* The usage ledger over several runs, dates and program starts *)

\* usage members of the completions: empty, 2 + 1 tokens, 1 + 3 tokens
LedgerUsages ==
    Usages \cup {[k \in {"prompt_tokens", "completion_tokens"} |->
                    IF k = "prompt_tokens" THEN 1 ELSE 3]}

\* the server answers 200 with a completion, or the request fails
LedgerResponses ==
    {[kind |-> "raise", status |-> 0, body |-> NotJson, cause |-> "timed out"],
     [kind |-> "response", status |-> 200, body |-> Completion("{choices}", <<>>)]}
    \cup {[kind |-> "response", status |-> 200,
           body |-> Completion(IF u = <<>> THEN "{choices,usage:{}}"
                               ELSE IF u["prompt_tokens"] = 2
                               THEN "{choices,usage:{2,1}}"
                               ELSE "{choices,usage:{1,3}}", <<u>>)] :
            u \in LedgerUsages}

\* the ledger an earlier session wrote on date 0
WrittenLedger ==
    Obj([history |-> Obj(0 :> Counts(4, 2)), total |-> Obj(Counts(4, 2))])

\* cost.json at startup, as far as record_usage provides for: missing, not JSON,
\* written by an earlier session, or a JSON object that lacks "total" or both
\* members (lines 217 and 225 add the member that is missing)
LedgerFiles ==
    {<<"absent">>, <<"corrupt">>, <<"json", WrittenLedger>>,
     <<"json", Obj([history |-> Obj(0 :> Counts(4, 2))])>>,
     <<"json", Obj(<<>>)>>}

\* cost.json holding JSON of another shape: not an object, or an object whose
\* "history" or "total" is not an object
OddLedgerFiles ==
    {<<"json", NotObj>>,
     <<"json", Obj([history |-> NotObj, total |-> Obj(Counts(0, 0))])>>,
     <<"json", Obj([history |-> Obj(<<>>), total |-> NotObj])>>}

\* the program started in vision mode with an api_key and a region, on one of files
LedgerInitOf(files) ==
    /\ cfgFile = <<"json", [api_key |-> <<"s", "k">>, region |-> <<0, 0, 2, 2>>,
                            advanced_mode |-> TRUE]>>
    /\ config = load_config(cfgFile)
    /\ costFile \in files
    /\ tm = [session_input |-> 0, session_output |-> 0, data |-> load_data(costFile)]
    /\ today = 1
    /\ worker = 0
    /\ runs = <<>>
    /\ sigq = <<>>
    /\ ui = [pc |-> "idle", i |-> 0, form |-> <<>>]
    /\ overlay = Shown("Waiting...", 0)
    /\ warning = FALSE
    /\ nSaves = 0

\* midnight passes: datetime.now() gives the next date
Tick ==
    /\ today < MaxDay
    /\ today' = today + 1
    /\ UNCHANGED <<config, cfgFile, tm, costFile, worker, runs, sigq, ui, overlay,
                   warning, nSaves>>

\* a worker thread takes its next step; the server answers with a completion
LedgerWorker ==
    \E k \in DOMAIN runs :
        \/ Decode(k)
        \/ Mode(k)
        \/ Vision(k)
        \/ Ocr(k)
        \/ Guard(k)
        \/ PostOf(k, LedgerResponses)
        \/ Exit(k)

LedgerNext ==
    \/ TriggerCapture
    \/ LedgerWorker
    \/ Deliver
    \/ Tick
    \/ Restart

LedgerSpec == LedgerInitOf(LedgerFiles) /\ [][LedgerNext]_vars

\* the program started on the empty ledger: cost.json missing or not JSON
EmptyLedgerSpec == LedgerInitOf({<<"absent">>, <<"corrupt">>}) /\ [][LedgerNext]_vars

AnyLedgerSpec == LedgerInitOf(LedgerFiles \cup OddLedgerFiles) /\ [][LedgerNext]_vars

----------------------------------------------------------------------------
(* What the claims are stated with *)

\* a trigger_translation call, whichever way it ends
TriggerStep == TriggerRejected \/ TriggerNoRegion \/ TriggerCapture

\* empty or whitespace only
Blank(str) == \A i \in 1..Len(str) : str[i] \in Whitespace

\* this step queues exactly one signal, an error of run k with message key
EmitsError(k, key) ==
    /\ Len(sigq') = Len(sigq) + 1
    /\ LET s == sigq'[Len(sigq')]
       IN  s.run = k /\ s.sig = "error" /\ s.text.key = key

\* the signals of run k that are queued
PendingCount(k) == Cardinality({i \in 1..Len(sigq) : sigq[i].run = k})

\* run k is in vision mode
InVision(k) == runs[k].loc.is_advanced = <<TRUE>>

\* the keys of the settings that the program does not know
UnknownKeys(cfg) == DOMAIN cfg \ DOMAIN default_config

\* how far run() has come
StageRank(pc) ==
    CASE pc = "decode"   -> 1
      [] pc = "mode"     -> 2
      [] pc = "ocr"      -> 3
      [] pc = "vision"   -> 3
      [] pc = "guard"    -> 4
      [] pc = "post"     -> 5
      [] pc = "exit"     -> 6
      [] pc = "finished" -> 7

\* the stage a run can enter next from each stage
NextStages ==
    [decode |-> {"mode", "exit"}, mode |-> {"ocr", "vision"},
     ocr |-> {"guard", "exit"}, vision |-> {"guard", "exit"},
     guard |-> {"post", "exit"}, post |-> {"exit"}, exit |-> {"finished"},
     finished |-> {}]

\* the failures of each stage
StageErrors ==
    [decode |-> {"Image Data Error"}, mode |-> {},
     ocr |-> {"OCR Error", "msg_ocr_empty"},
     vision |-> {"Error: unexpected", "Error: cannot write mode as JPEG"},
     guard |-> {"msg_api_key_missing"},
     post |-> {"Error: msg_net_error", "Error: API Error", "Error: Parse Error"},
     exit |-> {}, finished |-> {}]

\* this step queues a signal of run k
Emits(k) == Len(sigq') > Len(sigq) /\ sigq'[Len(sigq')].run = k

\* run k has built its request: its local api_base and proxy_url, stripped
\* (lines 316 and 318), its target_url and its proxies_arg
Built(k) == runs[k].loc.target_url # <<>>

LocalBase(k) == Strip(runs[k].loc.api_base[1])

LocalProxy(k) == Strip(runs[k].loc.proxy[1])

\* the string has a scheme: a name followed by "://"
HasScheme(str) == \E i \in 2..Len(str) - 2 : SubSeq(str, i, i + 2) = <<":", "/", "/">>

\* this step is on_translation_success calling record_usage ("if usage:")
RecordStep == Deliver /\ Head(sigq).sig = "finished" /\ DOMAIN Head(sigq).usage # {}

\* the counts a RecordStep records
Recorded ==
    Counts(UsageGet(Head(sigq).usage, "prompt_tokens"),
           UsageGet(Head(sigq).usage, "completion_tokens"))

Plus(c, d) == Counts(c.input + d.input, c.output + d.output)

\* the sum of a counter (field) over the daily entries h of the dates days
RECURSIVE SumOver(_, _, _)
SumOver(h, days, field) ==
    IF days = {} THEN 0
    ELSE LET d == CHOOSE x \in days : TRUE
         IN  h[d][field] + SumOver(h, days \ {d}, field)

\* the daily entries of ledger t
History(t) == IF "history" \in DOMAIN t.data.val THEN t.data.val.history.val ELSE <<>>

\* this step is run k's POST coming back with a response
PostStep(k) ==
    /\ k \in DOMAIN runs /\ k \in DOMAIN runs'
    /\ runs[k].pc = "post"
    /\ runs'[k].loc.response # <<>>

\* the response a PostStep got
ResponseOf(k) == runs'[k].loc.response[1]

\* the signal this step has queued
Emitted == sigq'[Len(sigq')]

Is2xx(status) == status \in 200..299

\* the body is JSON and has choices[0].message.content as a string
HasContentString(body) == body.json /\ body.content[1] = "str"

\* a counter of the body's usage member, 0 when the member or the counter is absent
Counter(body, key) ==
    IF body.usage # <<>> /\ key \in DOMAIN body.usage[1] THEN body.usage[1][key] ELSE 0

----------------------------------------------------------------------------
(* C1 *)

\* C1: single-flight. In every reachable state at most one worker thread is alive,
\* and a trigger_translation call made while a worker thread is alive shows the
\* "previous task in progress" notice and neither starts a worker nor touches the
\* running one.
C1_SingleFlight ==
    /\ [](Cardinality(Alive) <= 1)
    /\ [][(Alive # {} /\ TriggerStep) =>
            /\ overlay' = Shown("msg_prev_task", 0)
            /\ worker' = worker
            /\ runs' = runs
            /\ sigq' = sigq]_vars

\* a trigger was rejected while the worker it was rejected for is still running
C1_Witness ==
    /\ overlay = Shown("msg_prev_task", 0)
    /\ Cardinality(Alive) = 1
    /\ worker \in Alive

----------------------------------------------------------------------------
(* C2 *)

\* C2: once the outcome of a run has been delivered to the UI (its callback has
\* fired), the scheduler is Idle as far as that run goes: its worker thread is
\* no longer running, so the next trigger is not rejected on its account.
C2_IdleOnceOutcomeDelivered ==
    \A k \in DOMAIN runs : runs[k].fired # <<>> => ~ThreadRunning(k)

----------------------------------------------------------------------------
(* C3 *)

\* C3: every trigger that gets past the two guards ends in exactly one outcome.
\* If its capture fails, trigger_translation itself shows the failure and starts
\* no worker; otherwise the worker it starts gets at most one callback in every
\* state and, with threads running and the event loop serving its queue,
\* eventually exactly one: success or failure, never both.
C3_ExactlyOneOutcome ==
    /\ [](\A k \in DOMAIN runs :
            /\ Len(runs[k].fired) + PendingCount(k) <= 1
            /\ runs[k].pc \in {"exit", "finished"} =>
                    Len(runs[k].fired) + PendingCount(k) = 1)
    /\ [][(TriggerCapture /\ worker' = worker) =>
            (overlay' = Shown("msg_screenshot_fail", 0) /\ runs' = runs)]_vars
    /\ \A k \in 1..MaxRuns :
            [](k \in DOMAIN runs => <>(k \in DOMAIN runs /\ Len(runs[k].fired) = 1))

\* the first run got the failure callback and the second the success callback
C3_Witness ==
    /\ worker = 2
    /\ runs[2].fired = <<"success">>
    /\ 1 \in DOMAIN runs
    /\ runs[1].fired = <<"failure">>

----------------------------------------------------------------------------
(* C4 *)

----------------------------------------------------------------------------
(* C5 *)

\* C5: whatever a run has read from the configuration so far is what the
\* configuration held when the run was triggered.
C5_WorkerSeesSnapshot ==
    \A k \in DOMAIN runs :
        runs[k].snap # <<>> =>
            \A key \in DOMAIN runs[k].loc
                        \ {"text", "proxies_arg", "target_url", "exc", "response",
                            "image_mode", "messages"} :
                LET cfgKey == IF key = "is_advanced" THEN "advanced_mode" ELSE key
                IN  runs[k].loc[key] # <<>> =>
                        runs[k].loc[key][1] = ConfigGet(runs[k].snap[1], cfgKey)

----------------------------------------------------------------------------
(* C6 *)

\* C6: the usage ledger (session counters, daily history, total) and its file
\* change only in the step that delivers a finished (success) signal on the UI
\* thread; rejected triggers, "no region" triggers, failed captures, worker
\* steps and delivered errors leave it as it is, and as every write is such a
\* delivery no two writes overlap.
C6_LedgerOnlyOnSuccess ==
    [][(tm' # tm \/ costFile' # costFile) =>
        /\ ui.pc = "idle"
        /\ sigq # <<>>
        /\ Head(sigq).sig = "finished"
        /\ Deliver]_vars

\* the second run's failure has been delivered and the ledger still holds
\* exactly what the first run's success recorded
C6_Witness ==
    /\ worker = 2
    /\ runs[2].fired = <<"failure">>
    /\ tm.data.val.total.val = Counts(2, 1)
    /\ tm.session_input = 2

----------------------------------------------------------------------------
(* C7 *)

----------------------------------------------------------------------------
(* C8 *)

\* C8: a capture is attempted only for a region of positive width and height.
C8_CaptureOnlyPositiveRegion ==
    [][TriggerCapture => (config.region[3] > 0 /\ config.region[4] > 0)]_vars

----------------------------------------------------------------------------
(* C9 *)

\* C9 as claimed: a run whose api_key is blank when it is triggered and still
\* blank when it emits its outcome emits MissingApiKey, whatever the stage.
C9_BlankKeyMeansMissingApiKey ==
    [][\A k \in DOMAIN runs :
        (/\ runs[k].snap # <<>>
         /\ Blank(runs[k].snap[1].api_key)
         /\ Blank(config.api_key)
         /\ Len(sigq') = Len(sigq) + 1
         /\ sigq'[Len(sigq')].run = k)
        => EmitsError(k, "msg_api_key_missing")]_vars

\* C9 as amended: when the api_key a run reads at the key guard is blank, the
\* run ends there with MissingApiKey; a run that fails before the guard (image
\* decode, OCR error, empty OCR text) ends with that stage's error instead. In
\* either case no request is sent: a run sends a request only after reading an
\* api_key that is not blank.
C9_KeyGuard ==
    /\ [][\A k \in DOMAIN runs :
            (runs[k].pc = "guard" /\ runs'[k].pc # "guard" /\ Blank(config.api_key))
            => /\ runs'[k].pc = "exit"
               /\ EmitsError(k, "msg_api_key_missing")
               /\ runs'[k].posts = 0]_vars
    /\ [][\A k \in DOMAIN runs :
            (k \in DOMAIN runs' /\ runs'[k].posts > runs[k].posts)
            => /\ runs[k].loc.api_key # <<>>
               /\ ~Blank(runs[k].loc.api_key[1])]_vars
    /\ [](\A k \in DOMAIN runs :
            (runs[k].loc.api_key # <<>> /\ Blank(runs[k].loc.api_key[1]))
            => runs[k].posts = 0)

\* a run read a whitespace-only api_key, emitted MissingApiKey and sent nothing
C9_Witness ==
    \E k \in DOMAIN runs :
        /\ runs[k].pc = "exit"
        /\ runs[k].loc.api_key = << <<" ">> >>
        /\ runs[k].posts = 0
        /\ sigq # <<>>
        /\ sigq[Len(sigq)].run = k
        /\ sigq[Len(sigq)].text.key = "msg_api_key_missing"

----------------------------------------------------------------------------
(* C10 *)

\* C10: a run is in its OCR stage only after reading advanced_mode = false; when
\* the text the engine returns is blank, the run ends there with OcrEmpty, when
\* the engine raises it ends with the different OcrFailed message, and a run
\* whose extracted text is blank sends no request.
C10_OcrEmpty ==
    /\ [](\A k \in DOMAIN runs :
            runs[k].pc = "ocr" => runs[k].loc.is_advanced = <<FALSE>>)
    /\ [][\A k \in DOMAIN runs :
            (runs[k].pc = "ocr" /\ runs'[k].pc # "ocr") =>
                IF runs'[k].loc.text = <<>>
                THEN runs'[k].pc = "exit" /\ EmitsError(k, "OCR Error")
                ELSE IF Blank(runs'[k].loc.text[1])
                THEN runs'[k].pc = "exit" /\ EmitsError(k, "msg_ocr_empty")
                ELSE runs'[k].pc = "guard" /\ sigq' = sigq]_vars
    /\ [](\A k \in DOMAIN runs :
            (runs[k].loc.text # <<>> /\ Blank(runs[k].loc.text[1]))
            => runs[k].posts = 0 /\ runs[k].pc = "exit")

\* a run extracted whitespace only, emitted OcrEmpty and sent nothing
C10_Witness ==
    \E k \in DOMAIN runs :
        /\ runs[k].pc = "exit"
        /\ runs[k].loc.is_advanced = <<FALSE>>
        /\ runs[k].loc.text = << <<" ">> >>
        /\ runs[k].posts = 0
        /\ sigq # <<>>
        /\ sigq[Len(sigq)].run = k
        /\ sigq[Len(sigq)].text.key = "msg_ocr_empty"

----------------------------------------------------------------------------
(* C11 *)

\* C11: a response is answered with ApiError carrying its status exactly when
\* its status is not 2xx; a 2xx response (200, 201, 204) is never an ApiError.
C11_ApiErrorIffNot2xx ==
    [][\A k \in DOMAIN runs :
        PostStep(k) =>
            ((/\ EmitsError(k, "Error: API Error")
              /\ Emitted.text.status = ResponseOf(k).status)
             <=> ~Is2xx(ResponseOf(k).status))]_vars

----------------------------------------------------------------------------
(* C12 *)

\* C12: for a response that is not 2xx the ApiError message is the error message
\* of the body when the body has one, and the raw body text otherwise.
C12_ApiErrorMessage ==
    [][\A k \in DOMAIN runs :
        (PostStep(k) /\ ~Is2xx(ResponseOf(k).status)) =>
            /\ EmitsError(k, "Error: API Error")
            /\ Emitted.text.status = ResponseOf(k).status
            /\ Emitted.text.detail =
                    IF ResponseOf(k).body.error # <<>>
                    THEN ResponseOf(k).body.error
                    ELSE <<ResponseOf(k).body.text>>]_vars

----------------------------------------------------------------------------
(* C13 *)

\* C13: a 2xx response whose body is not JSON or has no string at
\* choices[0].message.content ends the run with ParseFailed, never with success.
C13_BadBodyIsParseFailed ==
    [][\A k \in DOMAIN runs :
        (/\ PostStep(k)
         /\ Is2xx(ResponseOf(k).status)
         /\ ~HasContentString(ResponseOf(k).body))
        => EmitsError(k, "Error: Parse Error")]_vars

----------------------------------------------------------------------------
(* C14 *)

\* C14: a 2xx response with valid content ends the run with success whatever its
\* usage member holds, the counters that are absent count as 0, and the ledger
\* grows by exactly the counters delivered.
C14_UsageOptional ==
    /\ [][\A k \in DOMAIN runs :
            (/\ PostStep(k)
             /\ Is2xx(ResponseOf(k).status)
             /\ HasContentString(ResponseOf(k).body))
            => /\ Len(sigq') = Len(sigq) + 1
               /\ Emitted.run = k
               /\ Emitted.sig = "finished"
               /\ UsageGet(Emitted.usage, "prompt_tokens")
                    = Counter(ResponseOf(k).body, "prompt_tokens")
               /\ UsageGet(Emitted.usage, "completion_tokens")
                    = Counter(ResponseOf(k).body, "completion_tokens")]_vars
    /\ [][(Deliver /\ Head(sigq).sig = "finished") =>
            /\ tm'.session_input
                = tm.session_input + UsageGet(Head(sigq).usage, "prompt_tokens")
            /\ tm'.session_output
                = tm.session_output + UsageGet(Head(sigq).usage, "completion_tokens")]_vars

----------------------------------------------------------------------------
(* C15 *)

\* C15: every record adds exactly its counts to total, to the session counters
\* and to the entry of the date it is made on, and leaves the entries of all
\* other dates as they are (so two records add a+c and b+d, and the today
\* bucket of get_stats holds nothing recorded before the date changed); nothing
\* but a record or a new program start changes the ledger.
C15_AdditiveAccounting ==
    /\ [][RecordStep =>
            /\ get_stats(tm', today).total = Plus(get_stats(tm, today).total, Recorded)
            /\ get_stats(tm', today).session
                    = Plus(get_stats(tm, today).session, Recorded)
            /\ get_stats(tm', today).today = Plus(get_stats(tm, today).today, Recorded)
            /\ \A d \in DOMAIN History(tm) \ {today} :
                    d \in DOMAIN History(tm') /\ History(tm')[d] = History(tm)[d]
            /\ DOMAIN History(tm') = DOMAIN History(tm) \cup {today}]_vars
    /\ [][tm' # tm => (RecordStep \/ Restart)]_vars
    /\ [][Tick => (today' \notin DOMAIN History(tm)
                        => get_stats(tm', today').today = Counts(0, 0))]_vars

\* 2 + 1 tokens were recorded on date 1 and 1 + 3 tokens on date 2
C15_Witness ==
    /\ today = 2
    /\ tm.data = Obj([history |-> Obj(<<Counts(2, 1), Counts(1, 3)>>),
                      total |-> Obj(Counts(3, 4))])
    /\ tm.session_input = 3
    /\ tm.session_output = 4
    /\ get_stats(tm, today).today = Counts(1, 3)

----------------------------------------------------------------------------
(* C16 *)

\* C16: in every ledger state that has a total, total.input and total.output are
\* at least the input and the output of every daily entry.
C16_TotalDominatesDaily ==
    "total" \in DOMAIN tm.data.val =>
        \A d \in DOMAIN History(tm) :
            /\ get_stats(tm, today).total.input >= History(tm)[d].input
            /\ get_stats(tm, today).total.output >= History(tm)[d].output

----------------------------------------------------------------------------
(* C17 *)

\* C17: whatever cost.json held at startup, a record completes: the result is
\* shown, the ledger has its total and its entry of today, and it is saved.
C17_RecordCompletes ==
    [][RecordStep =>
        /\ overlay' = Shown("result", Head(sigq).run)
        /\ IsObj(tm'.data)
        /\ "total" \in DOMAIN tm'.data.val /\ IsObj(tm'.data.val.total)
        /\ "history" \in DOMAIN tm'.data.val /\ IsObj(tm'.data.val.history)
        /\ today \in DOMAIN tm'.data.val.history.val
        /\ costFile' = <<"json", tm'.data>>]_vars

----------------------------------------------------------------------------
(* C18 *)

\* C18: normalizing a normalized endpoint changes nothing (also when the result
\* is put back into the setting and read again), and a base that already ends
\* with "/chat/completions" is the endpoint as it is.
C18_EndpointIdempotent ==
    \A k \in DOMAIN runs :
        Built(k) =>
            LET target_url == runs[k].loc.target_url[1]
            IN  /\ target_url = TargetUrl(LocalBase(k))
                /\ TargetUrl(target_url) = target_url
                /\ TargetUrl(Strip(target_url)) = target_url
                /\ EndsWith(LocalBase(k), SubPath) => target_url = LocalBase(k)

\* a run has built its request from "a/chat/completions"
C18_Witness ==
    \E k \in DOMAIN runs :
        /\ Built(k)
        /\ LocalBase(k) = <<"a">> \o SubPath
        /\ runs[k].loc.target_url[1] = <<"a">> \o SubPath
        /\ runs[k].posts = 1

----------------------------------------------------------------------------
(* C19 *)

\* C19: an empty or blank proxy setting gives no proxy, a setting that has a
\* scheme is used as it is, and a setting without a scheme gets "http://" in
\* front of it (blanks around the setting apart).
C19_ProxyNormalized ==
    \A k \in DOMAIN runs :
        Built(k) =>
            runs[k].loc.proxies_arg[1] =
                IF LocalProxy(k) = <<>> THEN <<>>
                ELSE IF HasScheme(LocalProxy(k)) THEN <<LocalProxy(k)>>
                ELSE <<HttpScheme \o LocalProxy(k)>>

----------------------------------------------------------------------------
(* C20 *)

\* C20: nothing is retried. A trigger captures once: it starts at most one
\* run, and a failed capture starts none and leaves the program idle. A run
\* never goes back to a stage it has been in, every step it takes moves it on, so
\* it decodes, recognizes and POSTs at most once, and a step in which it reports
\* a failure takes it to the end of run() without another POST.
C20_NoRetry ==
    /\ [][\A k \in DOMAIN runs \cap DOMAIN runs' :
            /\ StageRank(runs'[k].pc) >= StageRank(runs[k].pc)
            /\ (\/ runs'[k].loc # runs[k].loc
                \/ runs'[k].posts # runs[k].posts
                \/ Emits(k))
               => StageRank(runs'[k].pc) > StageRank(runs[k].pc)
            /\ runs'[k].posts # runs[k].posts
               => /\ runs[k].pc = "post"
                  /\ runs'[k].posts = 1
            /\ (Emits(k) /\ sigq'[Len(sigq')].sig = "error")
               => /\ runs'[k].pc = "exit"
                  /\ runs'[k].posts <= 1]_vars
    /\ [][(DOMAIN runs' \ DOMAIN runs # {}) =>
            /\ TriggerCapture
            /\ DOMAIN runs' \ DOMAIN runs = {worker'}
            /\ worker' = worker + 1
            /\ runs'[worker'].pc = "decode"
            /\ runs'[worker'].posts = 0]_vars
    /\ [][(TriggerCapture /\ worker' = worker) =>
            /\ overlay' = Shown("msg_screenshot_fail", 0)
            /\ runs' = runs
            /\ ui' = ui
            /\ sigq' = sigq]_vars

\* a run whose one POST failed has ended, its failure was shown, and a later
\* trigger has started the next run
C20_Witness ==
    \E k \in DOMAIN runs :
        /\ runs[k].pc = "finished"
        /\ runs[k].posts = 1
        /\ runs[k].fired = <<"failure">>
        /\ worker > k

----------------------------------------------------------------------------
(* C21 *)

\* C21: a capture that raises or gives zero bytes ends the trigger with the
\* screenshot-failed notice and starts no worker; the bytes a worker is started
\* on are never empty.
C21_EmptyCaptureFails ==
    [][TriggerCapture =>
        /\ worker' = worker
           => /\ overlay' = Shown("msg_screenshot_fail", 0)
              /\ runs' = runs
              /\ ~IsRunning(worker)'
        /\ worker' # worker
           => /\ runs'[worker'].image_data # "empty"
              /\ overlay' = Shown("msg_processing", 0)]_vars

----------------------------------------------------------------------------
(* C22 *)

\* C22: when the HTTP call raises, for a timeout as for a connection error, the
\* run reports the network failure with the cause attached, never an API error
\* or a parse error, and goes to the end of run(); the report is delivered as a
\* failure that leaves the ledger alone.
C22_NetworkFailed ==
    /\ [][\A k \in DOMAIN runs \cap DOMAIN runs' :
            (runs[k].pc = "post" /\ runs'[k].loc.exc # <<>>) =>
                /\ EmitsError(k, "Error: msg_net_error")
                /\ Emitted.text.detail = runs'[k].loc.exc
                /\ runs'[k].loc.response = <<>>
                /\ runs'[k].pc = "exit"]_vars
    /\ [][(Deliver /\ Head(sigq).text.key = "Error: msg_net_error") =>
            /\ Head(sigq).sig = "error"
            /\ overlay' = Shown("error", Head(sigq).run)
            /\ runs'[Head(sigq).run].fired = <<"failure">>
            /\ tm' = tm /\ costFile' = costFile]_vars

\* the failure of a run whose POST was refused a connection has been shown
C22_Witness ==
    \E k \in DOMAIN runs :
        /\ runs[k].loc.exc = <<"connection refused">>
        /\ runs[k].fired = <<"failure">>
        /\ overlay = Shown("error", k)

----------------------------------------------------------------------------
(* C23 *)

\* C23: the settings in memory are always what loading the file gives (every
\* set is written through at once), a key the file lacks reads as its default,
\* and a key the program does not know keeps its value, in memory and in the
\* file, through every set, rewrite and program start.
C23_ConfigPersistence ==
    /\ [](config = load_config(cfgFile))
    /\ [](\A key \in DOMAIN default_config :
            (cfgFile = <<"absent">> \/ key \notin DOMAIN cfgFile[2])
                => ConfigGet(config, key) = default_config[key])
    /\ [](cfgFile # <<"absent">> =>
            \A key \in UnknownKeys(cfgFile[2]) :
                key \in DOMAIN config /\ config[key] = cfgFile[2][key])
    /\ [][config' # config => cfgFile' = <<"json", config'>>]_vars
    /\ [][\A key \in UnknownKeys(config) :
            /\ key \in DOMAIN config' /\ config'[key] = config[key]
            /\ key \in DOMAIN cfgFile'[2] /\ cfgFile'[2][key] = config[key]]_vars

\* the file that held an unknown key and lacked the region has been rewritten
\* by a region selection and a whole save_settings, and still holds the key
C23_Witness ==
    /\ cfgFile[1] = "json"
    /\ "theme" \in DOMAIN cfgFile[2] /\ cfgFile[2]["theme"] = "dark"
    /\ "theme" \in DOMAIN config /\ config["theme"] = "dark"
    /\ DOMAIN default_config \subseteq DOMAIN cfgFile[2]
    /\ cfgFile[2]["region"] = <<0, 0, 2, 2>>
    /\ cfgFile[2]["api_base"] = <<"x", "/">>
    /\ cfgFile[2]["custom_prompt"] = "polish"
    /\ ui.pc = "idle"
    /\ nSaves = 1

----------------------------------------------------------------------------
(* C24 *)

\* C24: a run in vision mode never recognizes text, its image never fails to be
\* written as JPEG, and once it has passed the encoding its request holds one
\* message of two parts: the prompt as text and the image as a data:image/jpeg
\* URI of a plain-colour JPEG, also for an image with alpha channel or palette.
C24_VisionRequest ==
    /\ [](\A k \in DOMAIN runs :
            InVision(k) =>
                /\ runs[k].pc # "ocr"
                /\ runs[k].loc.text = <<>>
                /\ runs[k].pc \in {"guard", "post"} =>
                    /\ Len(runs[k].loc.messages[1]) = 1
                    /\ LET content == runs[k].loc.messages[1][1].content
                       IN  /\ Len(content) = 2
                           /\ content[1] = [type |-> "text",
                                            text |-> runs[k].loc.custom_prompt[1]]
                           /\ content[2].type = "image_url"
                           /\ content[2].image_url.url
                                = [prefix |-> "data:image/jpeg;base64,", jpeg |-> "RGB"])
    /\ [][\A k \in DOMAIN runs :
            ~EmitsError(k, "Error: cannot write mode as JPEG")]_vars

\* a vision run whose image has an alpha channel has built its request
C24_Witness ==
    \E k \in DOMAIN runs :
        /\ InVision(k)
        /\ runs[k].loc.image_mode = <<"RGBA">>
        /\ runs[k].loc.messages # <<>>
        /\ runs[k].posts = 1

----------------------------------------------------------------------------
(* C25 *)

\* C25: a rejected trigger changes nothing but the notice shown: the runs and
\* the stage each is in, the queued signals, the worker, the settings and their
\* file, the ledger and its file stay as they are, so the run in flight goes on
\* to its outcome; and a run is only ever started by the accepted trigger that
\* captured for it, while no worker is running.
C25_RejectedTriggerHasNoEffect ==
    /\ [][TriggerRejected =>
            /\ overlay' = Shown("msg_prev_task", 0)
            /\ runs' = runs
            /\ sigq' = sigq
            /\ worker' = worker
            /\ config' = config /\ cfgFile' = cfgFile
            /\ tm' = tm /\ costFile' = costFile]_vars
    /\ [][(worker' # worker \/ DOMAIN runs' \ DOMAIN runs # {}) =>
            /\ TriggerCapture
            /\ ~IsRunning(worker)
            /\ worker' = worker + 1]_vars

\* a trigger was rejected while run 1 was at its POST
C25_Witness ==
    /\ overlay = Shown("msg_prev_task", 0)
    /\ worker = 1
    /\ 1 \in DOMAIN runs
    /\ runs[1].pc = "post"
    /\ sigq = <<>>

----------------------------------------------------------------------------
(* C26 *)

\* C26: when a trigger is accepted no signal of an earlier run is still queued,
\* and every signal the UI thread handles is one of the latest run.
C26_OutcomesInRunOrder ==
    /\ [][(TriggerCapture /\ worker' # worker) =>
            \A k \in 1..worker : PendingCount(k) = 0]_vars
    /\ [][Deliver => Head(sigq).run = worker]_vars

----------------------------------------------------------------------------
(* C27 *)

\* C27: from the empty ledger on, total.input is the sum of the inputs of the
\* daily entries and total.output the sum of their outputs, whatever was
\* recorded on whatever dates and however often the program was restarted; the
\* session counters start at zero with the process, grow by exactly the counts
\* of each record, and change in no other step.
C27_LedgerConservation ==
    /\ [](get_stats(tm, today).total.input
            = SumOver(History(tm), DOMAIN History(tm), "input"))
    /\ [](get_stats(tm, today).total.output
            = SumOver(History(tm), DOMAIN History(tm), "output"))
    /\ [](costFile[1] = "json" => costFile[2] = tm.data)
    /\ [][RecordStep =>
            get_stats(tm', today).session
                = Plus(get_stats(tm, today).session, Recorded)]_vars
    /\ [][Restart => get_stats(tm', today).session = Counts(0, 0)]_vars
    /\ [][~(RecordStep \/ Restart) =>
            get_stats(tm', today).session = get_stats(tm, today).session]_vars

\* 2 + 1 tokens were recorded on date 1, the program was started again, and
\* 1 + 3 tokens were recorded on date 2
C27_Witness ==
    /\ History(tm) = <<Counts(2, 1), Counts(1, 3)>>
    /\ get_stats(tm, today).total = Counts(3, 4)
    /\ get_stats(tm, today).session = Counts(1, 3)
    /\ costFile = <<"json", tm.data>>

----------------------------------------------------------------------------
(* C28 *)

\* C28: a record that raises has changed none of the session counters, the
\* daily entries and the total, and has written nothing.
C28_RecordAllOrNothing ==
    [][(RecordStep /\ record_raises(tm)) =>
        /\ get_stats(tm', today).session = get_stats(tm, today).session
        /\ tm'.data = tm.data
        /\ costFile' = costFile]_vars

----------------------------------------------------------------------------
(* C29 *)

\* C29: a run goes through its stages in one order: decode, the mode switch,
\* OCR or vision encoding, the api_key guard, the HTTP call with the status
\* check before the parsing. The failure a run reports is one of the stage it is
\* in, and it ends the run there; success is reported from the HTTP stage only.
\* So a run in OCR mode whose text is blank reports OcrEmpty without having read
\* the api_key, blank or not, and a response that is not 200 is an API error
\* whatever its body.
C29_StageOrder ==
    /\ [][\A k \in DOMAIN runs \cap DOMAIN runs' :
            runs'[k].pc # runs[k].pc => runs'[k].pc \in NextStages[runs[k].pc]]_vars
    /\ [][\A k \in DOMAIN runs \cap DOMAIN runs' :
            Emits(k) =>
                /\ runs'[k].pc = "exit"
                /\ IF sigq'[Len(sigq')].sig = "error"
                   THEN sigq'[Len(sigq')].text.key \in StageErrors[runs[k].pc]
                   ELSE runs[k].pc = "post"]_vars
    /\ [][\A k \in DOMAIN runs \cap DOMAIN runs' :
            (/\ runs[k].pc = "ocr" /\ runs'[k].pc # "ocr"
             /\ runs'[k].loc.text # <<>> /\ Blank(runs'[k].loc.text[1]))
            => /\ EmitsError(k, "msg_ocr_empty")
               /\ runs'[k].loc.api_key = <<>>]_vars
    /\ [][\A k \in DOMAIN runs :
            PostStep(k) =>
                /\ ~StatusOk(ResponseOf(k).status) => EmitsError(k, "Error: API Error")
                /\ EmitsError(k, "Error: Parse Error")
                   => (StatusOk(ResponseOf(k).status) /\ ~Parses(ResponseOf(k).body))]_vars

\* a run in OCR mode extracted whitespace only while the api_key was blank, and
\* reported OcrEmpty
C29_Witness ==
    \E k \in DOMAIN runs :
        /\ runs[k].pc = "exit"
        /\ runs[k].loc.is_advanced = <<FALSE>>
        /\ runs[k].loc.text = << <<" ">> >>
        /\ runs[k].loc.api_key = <<>>
        /\ Blank(ConfigGet(config, "api_key"))
        /\ Blank(ConfigGet(runs[k].snap[1], "api_key"))
        /\ sigq # <<>>
        /\ sigq[Len(sigq)].run = k
        /\ sigq[Len(sigq)].text.key = "msg_ocr_empty"
        /\ runs[k].posts = 0

----------------------------------------------------------------------------
(* C30 *)

\* C30: the target URL of a request ends with the sub-path, and it ends with the
\* sub-path twice only if the configured base did so itself (trailing slashes
\* and surrounding blanks apart): the sub-path is never appended to a base that
\* already names the completions endpoint.
C30_OneSubPath ==
    \A k \in DOMAIN runs :
        Built(k) =>
            LET target_url == runs[k].loc.target_url[1]
                named      == RStripSlash(LocalBase(k))
            IN  /\ EndsWith(target_url, SubPath)
                /\ EndsWith(named, SubPath) => target_url = named
                /\ ~EndsWith(named, SubPath \o SubPath)
                    => ~EndsWith(target_url, SubPath \o SubPath)

====
